---------------------------- MODULE Spec2Model ----------------------------
(***************************************************************************)
(* bragi-core: the ScraperManager (src/scraper/mod.rs), the                *)
(* LimitedRequestClient (src/utils/request.rs) and the Scrapers            *)
(* (src/scraper/*.rs).                                                     *)
(*                                                                         *)
(* SpecMgr : one Manager request at a time against a fixed registry.       *)
(* SpecLrc : one LimitedRequestClient, its callers, its dispatch loop and  *)
(*           the tower service stack buffer -> concurrency_limit ->        *)
(*           rate_limit -> client it drives; callers may give up, and the  *)
(*           clock moves from one end of a RateLimit window to the next.   *)
(* SpecRate: the same client with one call more, callers that keep         *)
(*           waiting, and a clock that moves tick by tick.                 *)
(* SpecTwo : two clients side by side, the second one saturated.           *)
(* SpecScr : one Scraper call at a time, with any arguments, against an    *)
(*           upstream that answers or fails.                               *)
(* SpecOne : a client that starts one request per window, tick by tick.    *)
(* SpecLive: a client whose callers all wait, under a fair dispatch.       *)
(* SpecTid : a Bilibili track id built from any bvid and cid and parsed.   *)
(* SpecRt  : a playlist found by search and looked up by detail.           *)
(* SpecCfg : the startup of the server with any provider sections.         *)
(* SpecStr : the YouTube stream of any adaptive formats.                   *)
(* SpecWbi : get_wbi_keys (src/scraper/bili.rs) at any time, any cache.    *)
(***************************************************************************)
EXTENDS Integers, Sequences, FiniteSets, Bags, TLC

(***************************************************************************)
(* Bounds of the model.                                                    *)
(***************************************************************************)
\* longest provider list of a suggest/search request
MaxProviders == 2
\* most items one Scraper call returns
MaxItems == 1
\* calls made on one LimitedRequestClient
MaxCalls == 3
\* largest request_buffer_size and rate_limit_number; max_concurrency_number
\* goes one further, so that dispatch futures can outnumber the Buffer's permits
MaxParam == 2
\* clock ticks in one second
TicksPerSecond == 2
\* calls whose caller gives up before it has its result
MaxAbandons == 1
\* longest zone list of a Scraper's search
MaxZones == 2
\* longest bvid and cid of a Bilibili video
MaxLen == 2
\* the adaptive formats of one upstream video
MaxFormats == 3
\* the days the clock and the WBI cache range over
MaxDays == 2
\* the instants the clock tells apart within one hour
SlotsPerHour == 2

(***************************************************************************)
(* Constants of the program.                                               *)
(***************************************************************************)
\* channel_buffer_size, as main builds every client
ChannelBufferSize == 1
\* rate_limit_duration, as main builds every client: Duration::from_secs(1)
RateLimitSecs == 1

(***************************************************************************)
(* Manager: values.                                                        *)
(***************************************************************************)
Providers == {"Bilibili", "NeteaseMusic", "Spotify", "Youtube"}

\* keywords and ids of requests: opaque strings the Manager only forwards
Args == {"a", "b"}

\* errors a Scraper may return (anyhow errors, told apart by their text)
ScraperErrors == {"UpstreamFailure", "UnsupportedOperation"}

NoError == [kind |-> "none", provider |-> "none"]

Ok(items) == [tag |-> "Ok", items |-> items, err |-> NoError]

Err(kind, p) == [tag |-> "Err", items |-> <<>>, err |-> [kind |-> kind, provider |-> p]]

\* the future has not completed
Pending == [tag |-> "Pending", items |-> <<>>, err |-> NoError]

\* the call unwound with a panic instead of returning a value
Panicked == [tag |-> "Panic", items |-> <<>>, err |-> NoError]

\* anyhow!("[ScraperManager] provider {:?} not enabled now", p)
NotEnabled(p) == Err("ProviderNotEnabled", p)

\* bail!("[ScraperManager] providers MUST be provided but is nil.")
ProvidersNil == Err("InvalidInput", "none")

\* n items as a Scraper builds them: each carries the Scraper's own provider
TaggedItems(p, n) == [i \in 1..n |-> [provider |-> p, val |-> i]]

\* what a call of one Scraper method can return
ScraperOutcomes(p) ==
    {Ok(TaggedItems(p, n)) : n \in 0..MaxItems}
        \cup {Err(k, p) : k \in ScraperErrors}

ProviderLists == UNION {[1..n -> Providers] : n \in 0..MaxProviders}

Invocation(p, method, arg) == [provider |-> p, method |-> method, arg |-> arg]

VARIABLES
    scrapers,   \* ScraperManager.scrapers: the providers with a registered Scraper
    mPc,        \* "idle" | "fanout" | "single" | "done"
    mReq,       \* the request being served: [op, providers, arg]
    mBranch,    \* per branch: what the branch's future returned (Pending while in flight)
    mResp,      \* what the Manager call returned to its caller
    calls       \* bag of the Scraper methods invoked while serving mReq

mgrVars == <<scrapers, mPc, mReq, mBranch, mResp, calls>>

VARIABLES
    cfg,        \* the arguments of LimitedRequestClient::new
    cst,        \* per call: where the caller is in LimitedRequestClient::call
    intake,     \* the mpsc channel: messages (request, resp_tx) not yet received
    parkedQ,    \* the mpsc channel's queue of parked senders
    dpc,        \* per request: where it is in the dispatch pipeline
    dtx,        \* per request: the resp_tx its dispatch future holds
    bufPermits, \* free permits of the Buffer's semaphore
    bufWaiters, \* dispatch futures queued on the Buffer's semaphore
    readyQ,     \* FuturesUnordered: the dispatch futures pushed or woken, not yet polled
    dtop,       \* for_each_concurrent is at the top of its loop, where it polls the channel
    workerQ,    \* the Buffer's channel to its worker
    worker,     \* the Buffer worker: the message it kept, the ConcurrencyLimit permit it
                \* holds, and the message it has answered and not yet dropped
    clPermits,  \* free permits of the ConcurrencyLimit's semaphore
    rl,         \* the RateLimit's state
    now,        \* the clock
    starts,     \* history: the transport calls (Client::call) in the order made
    oneshot,    \* per call: the value sent into its oneshot channel
    sendsTo,    \* history, per call: resp_tx.send calls on its oneshot
    got,        \* per call: what LimitedRequestClient::call returned
    errLog,     \* history: the requests whose resp_tx.send failed and was logged
    loopAlive   \* the task spawned in new is running

lrcVars == <<cfg, cst, intake, parkedQ, dpc, dtx, bufPermits, bufWaiters, readyQ, dtop,
             workerQ, worker, clPermits, rl, now, starts, oneshot, sendsTo, got,
             errLog, loopAlive>>

VARIABLE
    other       \* a second LimitedRequestClient, whose transport never returns: the
                \* requests in its channel, its transport calls in flight, its RateLimit

VARIABLES
    sPc,        \* a Scraper call: "idle", "waiting" for the upstream, "done"
    sCall,      \* the call: the Scraper, the operation and its arguments
    sUp,        \* the upstream requests the call has made
    sAns,       \* what the upstream answered to each of them
    sResp       \* what the call returned

scrVars == <<sPc, sCall, sUp, sAns, sResp>>

VARIABLES
    tPc,        \* a Bilibili track id: "args", "id" (built), "parsed"
    tBvid,      \* the bvid of the video
    tCid,       \* the cid of the video, as a string
    tId,        \* trackid_from(bvid, cid)
    tParsed     \* trackid_into(id)

tidVars == <<tPc, tBvid, tCid, tId, tParsed>>

VARIABLES
    rPc,        \* a playlist looked up twice: "upstream", "searched", "detailed"
    rScr,       \* the Scraper
    rUp,        \* the playlist (for Bilibili: the video) as the upstream holds it
    rItem,      \* the item the Scraper's search returned for it
    rDet        \* what the Scraper's detail returned for the item's id

rtVars == <<rPc, rScr, rUp, rItem, rDet>>

VARIABLES
    gPc,        \* startup: "start", "rejected", "init" (building the registry),
                \* "failed" (a Scraper could not be built), "serving"
    gSetting,   \* the provider sections of the configuration
    gNext       \* the position in main's sequence of provider sections

cfgVars == <<gPc, gSetting, gNext>>

VARIABLES
    fPc,        \* a YouTube stream call: "upstream" (answered), "done"
    fUp,        \* the audioQuality of each adaptive format the upstream answered
    fOut        \* what video_stream returned

strVars == <<fPc, fUp, fOut>>

VARIABLES
    wPc,        \* a get_wbi_keys call: "idle", "done"
    wNow,       \* Utc::now() at the call
    wCache,     \* wbi_cache: the keys and the time they were cached
    wRes        \* what get_wbi_keys returned

wbiVars == <<wPc, wNow, wCache, wRes>>

pureVars == <<tidVars, rtVars, cfgVars, strVars, wbiVars>>

vars == <<mgrVars, lrcVars, other, scrVars, pureVars>>

NoRequest == [op |-> "none", providers |-> <<>>, arg |-> "a"]

(***************************************************************************)
(* Manager: suggest / search.                                              *)
(***************************************************************************)
RECURSIVE Flatten(_)
Flatten(seqs) ==
    IF seqs = <<>> THEN <<>> ELSE Head(seqs) \o Flatten(Tail(seqs))

\* .into_iter().filter_map(|i| i.ok())
FilterMapOk(branches) ==
    LET okAt(r) == r.tag = "Ok"
    IN  SelectSeq(branches, okAt)

\* a variant that fails the whole call on the first failing branch
FanOutResponseTryJoin(branches) ==
    LET failed == {i \in DOMAIN branches : branches[i].tag = "Err"}
        first == CHOOSE i \in failed : \A j \in failed : i <= j
    IN  IF failed = {} THEN Ok(Flatten([i \in DOMAIN branches |-> branches[i].items]))
        ELSE branches[first]

\* join_all(..).await.into_iter().filter_map(..).flatten().collect(), wrapped in Ok
FanOutResponse(branches) ==
    LET oks == FilterMapOk(branches)
    IN  Ok(Flatten([i \in DOMAIN oks |-> oks[i].items]))

\* the first poll of one branch: the registry lookup, then the Scraper call
BranchStart(p) ==
    IF p \in scrapers THEN Pending ELSE NotEnabled(p)

\* join_all over req.providers(), up to its first suspension: every branch is
\* polled once, in the order of the list
FanOutJoinAll(method, provs, kw) ==
    LET branches == [i \in DOMAIN provs |-> BranchStart(provs[i])]
        started == {i \in DOMAIN provs : provs[i] \in scrapers}
        invoked == [i \in started |-> Invocation(provs[i], method, kw)]
        newCalls == [c \in {invoked[i] : i \in started} |->
                        Cardinality({i \in started : invoked[i] = c})]
    IN  /\ mPc = "idle"
        /\ mReq' = [op |-> method, providers |-> provs, arg |-> kw]
        /\ mBranch' = branches
        /\ calls' = newCalls
        /\ IF started = {}
           THEN /\ mPc' = "done"
                /\ mResp' = FanOutResponse(branches)
           ELSE /\ mPc' = "fanout"
                /\ mResp' = Pending
        /\ UNCHANGED <<scrapers, lrcVars, other, scrVars, pureVars>>

\* a variant without the check of req.providers
FanOutStartUnchecked(method, provs, kw) == FanOutJoinAll(method, provs, kw)

\* suggest / search up to the first suspension of join_all
FanOutStart(method, provs, kw) ==
    IF provs = <<>>
    THEN /\ mPc = "idle"
         /\ mReq' = [op |-> method, providers |-> provs, arg |-> kw]
         /\ mBranch' = <<>>
         /\ calls' = EmptyBag
         /\ mPc' = "done"
         /\ mResp' = ProvidersNil
         /\ UNCHANGED <<scrapers, lrcVars, other, scrVars, pureVars>>
    ELSE FanOutJoinAll(method, provs, kw)

MgrSuggest(provs, kw) == FanOutStart("suggest", provs, kw)

MgrSearch(provs, kw) == FanOutStart("search", provs, kw)

\* a join that ends with the first branch to finish
JoinAllDoneFirst(branches) == \E j \in DOMAIN branches : branches[j] # Pending

\* join_all(..).await is ready once every future of the list is
JoinAllDone(branches) == \A j \in DOMAIN branches : branches[j] # Pending

\* the Scraper call of branch i returns; the last one to return ends join_all
ScraperReturn(i, outcome) ==
    /\ mPc = "fanout"
    /\ i \in DOMAIN mBranch
    /\ mBranch[i] = Pending
    /\ outcome \in ScraperOutcomes(mReq.providers[i])
    /\ LET branches == [mBranch EXCEPT ![i] = outcome]
       IN  /\ mBranch' = branches
           /\ IF JoinAllDone(branches)
              THEN /\ mPc' = "done"
                   /\ mResp' = FanOutResponse(branches)
              ELSE UNCHANGED <<mPc, mResp>>
    /\ UNCHANGED <<scrapers, mReq, calls, lrcVars, other, scrVars, pureVars>>

(***************************************************************************)
(* Manager: detail / stream.                                               *)
(***************************************************************************)
\* self.scrapers.get(&p).ok_or_else(|| anyhow!(..))? : an error value
LookupOrErr(p) == NotEnabled(p)

\* self.scrapers.get(&p).unwrap() : Option::unwrap on None panics
LookupUnwrap(p) == Panicked

\* a lookup that takes the Scraper out of the map
ScrapersAfterTake(p) == scrapers \ {p}

\* self.scrapers.get(&p) reads the map: the registry is as it was
ScrapersAfterGet(p) == scrapers

SingleStart(method, p, id, onMissing) ==
    /\ mPc = "idle"
    /\ mReq' = [op |-> method, providers |-> <<p>>, arg |-> id]
    /\ IF p \in scrapers
       THEN /\ mPc' = "single"
            /\ mBranch' = <<Pending>>
            /\ mResp' = Pending
            /\ calls' = SetToBag({Invocation(p, method, id)})
       ELSE /\ mPc' = "done"
            /\ mBranch' = <<>>
            /\ mResp' = onMissing
            /\ calls' = EmptyBag
    /\ scrapers' = ScrapersAfterGet(p)
    /\ UNCHANGED <<lrcVars, other, scrVars, pureVars>>

MgrDetail(p, id) == SingleStart("detail", p, id, LookupOrErr(p))

MgrStream(p, id) == SingleStart("stream", p, id, LookupUnwrap(p))

\* a variant that hides the Scraper's error behind one of the Manager's own
SingleResponseWrapped(outcome) ==
    IF outcome.tag = "Err" THEN Err("Internal", outcome.err.provider) ELSE outcome

\* .detail(req.id, zone).await? / .stream(req.id).await? : Ok re-wrapped, Err as it is
SingleResponse(outcome) == outcome

ScraperReturnSingle(outcome) ==
    /\ mPc = "single"
    /\ outcome \in ScraperOutcomes(mReq.providers[1])
    /\ mBranch' = <<outcome>>
    /\ mResp' = SingleResponse(outcome)
    /\ mPc' = "done"
    /\ UNCHANGED <<scrapers, mReq, calls, lrcVars, other, scrVars, pureVars>>

\* the response has been handed to the server; the next request may come
MgrNext ==
    /\ mPc = "done"
    /\ mPc' = "idle"
    /\ mReq' = NoRequest
    /\ mBranch' = <<>>
    /\ mResp' = Pending
    /\ calls' = EmptyBag
    /\ UNCHANGED <<scrapers, lrcVars, other, scrVars, pureVars>>

(***************************************************************************)
(* LimitedRequestClient: values.                                           *)
(***************************************************************************)
\* the calls of the model: MaxCalls of them under SpecLrc, one more under SpecRate
CallIds == 1..(MaxCalls + 1)

\* the arguments of LimitedRequestClient::new; main passes channel_buffer_size 1
\* and a rate_limit_duration of one second
Configs ==
    [chanBuf : {ChannelBufferSize}, reqBuf : 1..MaxParam, maxConc : 1..(MaxParam + 1),
     rateNum : 1..MaxParam, ratePer : {RateLimitSecs * TicksPerSecond}]

\* the tuple (req, resp_tx) that call puts on the channel
Message(r) == [req |-> r, tx |-> r]

Empty == [req |-> 0, ok |-> FALSE]

\* the transport: what Client::call answers to request r (every second request fails)
TransportOk(r) == r % 2 = 1

\* a dispatch future that answers a failed transport call with an empty response
OutcomeSwallowed(r) == [req |-> r, ok |-> TRUE]

\* Result<Response>: the outcome of the transport call made for request r
Outcome(r) == [req |-> r, ok |-> TransportOk(r)]

\* max_concurrency_number raised by one
MaxConcurrencyNumberPlusOne == cfg.maxConc + 1

\* a client built with max_concurrency_number 0
MaxConcurrencyNumberZero == cfg.maxConc - cfg.maxConc

\* clients that share one semaphore for their transport calls
MaxConcurrencyNumberShared == cfg.maxConc - other.exec

\* max_concurrency_number, given to for_each_concurrent and to concurrency_limit
MaxConcurrencyNumber == cfg.maxConc

\* the dispatch futures for_each_concurrent is running
ActiveFutures ==
    {r \in CallIds : dpc[r] \in {"taken", "bufwait", "granted", "buffered", "worker", "executing"}}

\* the requests whose transport call has been made and has not returned
Executing == {r \in CallIds : dpc[r] = "executing"}

InSeq(q, x) == \E i \in DOMAIN q : q[i] = x

\* LimitedRequestClient::call is suspended in send(..).await: its Sender is parked
InSend(r) == cst[r] = "calling" /\ InSeq(parkedQ, r)

(***************************************************************************)
(* LimitedRequestClient::call, the caller's side.                          *)
(***************************************************************************)
\* do_send_b: the Sender parks when the channel, with its message, holds more
\* than channel_buffer_size messages
SenderParks(n) == n + 1 > cfg.chanBuf

\* call up to its first suspension: oneshot::channel(), request_tx.clone() and
\* the first poll of send(..): a fresh Sender clone is not parked, so its
\* message is queued whatever the channel holds
Call(r) ==
    /\ cst[r] = "none"
    /\ \A q \in CallIds : q < r => cst[q] # "none"
    /\ intake' = Append(intake, Message(r))
    /\ dpc' = [dpc EXCEPT ![r] = "queued"]
    /\ parkedQ' = IF SenderParks(Len(intake)) THEN Append(parkedQ, r) ELSE parkedQ
    /\ cst' = [cst EXCEPT ![r] = "calling"]
    /\ UNCHANGED <<cfg, dtx, bufPermits, bufWaiters, readyQ, dtop, workerQ, worker, clPermits,
                   rl, now, starts, oneshot, sendsTo, got, errLog, loopAlive, mgrVars, other, scrVars, pureVars>>

\* send(..).await? has completed and rx.await? completes with the value sent
\* into the oneshot: call returns it
CallerReturn(r) ==
    /\ cst[r] = "calling"
    /\ ~InSend(r)
    /\ oneshot[r] # Empty
    /\ got' = [got EXCEPT ![r] = oneshot[r]]
    /\ cst' = [cst EXCEPT ![r] = "returned"]
    /\ UNCHANGED <<cfg, intake, parkedQ, dpc, dtx, bufPermits, bufWaiters, readyQ, dtop, workerQ,
                   worker, clPermits, rl, now, starts, oneshot, sendsTo, errLog, loopAlive,
                   mgrVars, other, scrVars, pureVars>>

\* a caller that has no result yet drops the future of call: its Sender clone
\* and its oneshot Receiver
Abandon(r) ==
    /\ cst[r] = "calling"
    /\ oneshot[r] = Empty
    /\ Cardinality({c \in CallIds : cst[c] = "abandoned"}) < MaxAbandons
    /\ cst' = [cst EXCEPT ![r] = "abandoned"]
    /\ oneshot' = [oneshot EXCEPT ![r] = Empty]
    /\ UNCHANGED <<cfg, intake, parkedQ, dpc, dtx, bufPermits, bufWaiters, readyQ, dtop, workerQ,
                   worker, clPermits, rl, now, starts, sendsTo, got, errLog, loopAlive, mgrVars, other, scrVars, pureVars>>

(***************************************************************************)
(* The dispatch loop: rx.for_each_concurrent(max_concurrency_number, ..).  *)
(***************************************************************************)
\* for_each_concurrent, at the top of its loop and with fewer than the limit of
\* futures: it takes the next message (the Receiver unparks one parked Sender)
\* and pushes the new future, which FuturesUnordered will poll after the
\* futures woken before
DispatchTake ==
    /\ loopAlive
    /\ dtop
    /\ intake # <<>>
    /\ Cardinality(ActiveFutures) < MaxConcurrencyNumber
    /\ LET msg == Head(intake)
           r == msg.req
       IN  /\ intake' = Tail(intake)
           /\ parkedQ' = IF parkedQ = <<>> THEN parkedQ ELSE Tail(parkedQ)
           /\ dtx' = [dtx EXCEPT ![r] = msg.tx]
           /\ dpc' = [dpc EXCEPT ![r] = "taken"]
           /\ readyQ' = Append(readyQ, r)
    /\ dtop' = FALSE
    /\ UNCHANGED <<cfg, cst, bufPermits, bufWaiters, workerQ, worker, clPermits, rl, now,
                   starts, oneshot, sendsTo, got, errLog, loopAlive, mgrVars, other, scrVars, pureVars>>

\* FuturesUnordered polls the future woken first. inner_service.ready().await:
\* Buffer::poll_ready takes a permit of the Buffer's semaphore, or queues for
\* one (a future woken with a permit has it). srv.call(req): Buffer::call sends
\* the request to the worker. With no future left to poll, for_each_concurrent
\* is at the top of its loop again
DispatchPoll ==
    /\ loopAlive
    /\ readyQ # <<>>
    /\ LET r == Head(readyQ)
       IN  IF dpc[r] = "granted" \/ bufPermits > 0
           THEN /\ bufPermits' = IF dpc[r] = "granted" THEN bufPermits ELSE bufPermits - 1
                /\ workerQ' = Append(workerQ, r)
                /\ dpc' = [dpc EXCEPT ![r] = "buffered"]
                /\ UNCHANGED bufWaiters
           ELSE /\ bufWaiters' = Append(bufWaiters, r)
                /\ dpc' = [dpc EXCEPT ![r] = "bufwait"]
                /\ UNCHANGED <<bufPermits, workerQ>>
    /\ readyQ' = Tail(readyQ)
    /\ dtop' = (Tail(readyQ) = <<>>)
    /\ UNCHANGED <<cfg, cst, intake, parkedQ, dtx, worker, clPermits, rl, now, starts,
                   oneshot, sendsTo, got, errLog, loopAlive, mgrVars, other, scrVars, pureVars>>

(***************************************************************************)
(* The Buffer's worker and the services under it.                          *)
(***************************************************************************)
\* Worker::poll_next_msg: the oldest message of the worker's channel
WorkerNext(q) == Head(q)

\* the message the worker is working on: the one it kept, or the next one
WorkerMsg == IF worker.cur # 0 THEN worker.cur ELSE WorkerNext(workerQ)

WorkerRest(q, r) == SelectSeq(q, LAMBDA x : x # r)

\* ConcurrencyLimit::poll_ready is past its semaphore: it holds a permit or gets one
ConcurrencyReady == worker.permit \/ clPermits > 0

\* a timer that fires one tick before the window has ended
RateLimitReadyEarly == ~rl.limited \/ now + 1 >= rl.until

\* RateLimit::poll_ready is Ready: the state is Ready, or the sleep has elapsed
RateLimitReady == ~rl.limited \/ now >= rl.until

\* RateLimit::poll_ready: Limited becomes Ready { until: now + per, rem: num }
RateLimitPolled ==
    IF rl.limited
    THEN [limited |-> FALSE, until |-> now + cfg.ratePer, rem |-> cfg.rateNum]
    ELSE rl

\* a RateLimit that closes the window one call late
RateLimitCalledOffByOne(s) ==
    LET until == IF now >= s.until THEN now + cfg.ratePer ELSE s.until
        rem == IF now >= s.until THEN cfg.rateNum ELSE s.rem
    IN  IF rem > 0
        THEN [limited |-> FALSE, until |-> until, rem |-> rem - 1]
        ELSE [limited |-> TRUE, until |-> until, rem |-> rem]

\* RateLimit::call on Ready { until, rem }
RateLimitCalled(s) ==
    LET until == IF now >= s.until THEN now + cfg.ratePer ELSE s.until
        rem == IF now >= s.until THEN cfg.rateNum ELSE s.rem
    IN  IF rem > 1
        THEN [limited |-> FALSE, until |-> until, rem |-> rem - 1]
        ELSE [limited |-> TRUE, until |-> until, rem |-> rem]

\* a stack with rate_limit above concurrency_limit: the permit is taken only
\* once the RateLimit is ready
ConcurrencyAcquiredAfterRate == clPermits > 0 /\ RateLimitReady

\* ConcurrencyLimit::poll_ready takes a permit, if there is one, before it polls
\* the RateLimit under it
ConcurrencyAcquired == clPermits > 0

\* Worker::poll takes the next message and polls the service: poll_ready of
\* ConcurrencyLimit takes the permit; while the service is not ready the worker
\* keeps the message and the permit
WorkerWait ==
    /\ worker.drop = 0
    /\ worker.cur = 0
    /\ workerQ # <<>>
    /\ LET r == WorkerMsg
       IN  /\ worker' = [cur |-> r, permit |-> ConcurrencyAcquired, drop |-> 0]
           /\ clPermits' = IF ConcurrencyAcquired THEN clPermits - 1 ELSE clPermits
           /\ workerQ' = WorkerRest(workerQ, r)
           /\ dpc' = [dpc EXCEPT ![r] = "worker"]
    /\ UNCHANGED <<cfg, cst, intake, parkedQ, dtx, bufPermits, bufWaiters, readyQ, dtop,
                   rl, now, starts, oneshot, sendsTo, got, errLog, loopAlive, mgrVars, other, scrVars, pureVars>>

\* Worker::poll with its message and the service ready:
\* ConcurrencyLimit::poll_ready, RateLimit::poll_ready and call, then
\* Client::call: the transport call of the message is made, and the response
\* future, with the ConcurrencyLimit permit in it, is sent to the dispatch future
WorkerCall ==
    /\ worker.drop = 0
    /\ worker.cur # 0
    /\ ConcurrencyReady
    /\ RateLimitReady
    /\ LET r == WorkerMsg
           after == RateLimitCalled(RateLimitPolled)
       IN  /\ rl' = after
           /\ starts' = Append(starts, [req |-> r, t |-> now, win |-> after.until])
           /\ worker' = [cur |-> 0, permit |-> FALSE, drop |-> r]
           /\ clPermits' = IF worker.permit THEN clPermits ELSE clPermits - 1
           /\ dpc' = [dpc EXCEPT ![r] = "executing"]
    /\ UNCHANGED <<cfg, cst, intake, parkedQ, dtx, bufPermits, bufWaiters, readyQ, dtop, workerQ, now,
                   oneshot, sendsTo, got, errLog, loopAlive, mgrVars, other, scrVars, pureVars>>

\* the worker drops the message it has answered, and with it the message's
\* Buffer permit: the semaphore hands the permit to its first waiter and wakes
\* it, or has one more permit
WorkerDrop ==
    /\ worker.drop # 0
    /\ worker' = [worker EXCEPT !.drop = 0]
    /\ IF bufWaiters = <<>>
       THEN /\ bufPermits' = bufPermits + 1
            /\ UNCHANGED <<bufWaiters, readyQ, dpc>>
       ELSE /\ readyQ' = Append(readyQ, Head(bufWaiters))
            /\ bufWaiters' = Tail(bufWaiters)
            /\ dpc' = [dpc EXCEPT ![Head(bufWaiters)] = "granted"]
            /\ UNCHANGED bufPermits
    /\ UNCHANGED <<cfg, cst, intake, parkedQ, dtx, dtop, workerQ, clPermits, rl, now, starts,
                   oneshot, sendsTo, got, errLog, loopAlive, mgrVars, other, scrVars, pureVars>>

\* a dispatch future that unwraps the result of resp_tx.send
OnSendErrorPanic == FALSE

\* resp_tx.send(resp) failed: error!(..) logs it and the future ends normally;
\* the value is whether the dispatch task lives on
OnSendError == TRUE

\* a dispatch future that answers on the oneshot of the latest call
RespTxLatest(r) == CHOOSE c \in CallIds : cst[c] # "none" /\ \A d \in CallIds : cst[d] # "none" => d <= c

\* the resp_tx the dispatch future of request r holds: the one queued with r
RespTx(r) == dtx[r]

\* the transport call of r returns and its dispatch future, woken by it, is
\* polled in its turn and runs to its end: the
\* response future is dropped (its ConcurrencyLimit permit is free again) and
\* resp_tx.send(resp) hands the result to the caller, if it still listens
TransportDone(r) ==
    /\ loopAlive
    /\ dpc[r] = "executing"
    /\ readyQ = <<>>
    /\ dtop' = TRUE
    /\ LET tx == RespTx(r)
           listening == cst[tx] = "calling"
       IN  /\ sendsTo' = [sendsTo EXCEPT ![tx] = @ + 1]
           /\ IF listening
              THEN /\ oneshot' = [oneshot EXCEPT ![tx] = Outcome(r)]
                   /\ UNCHANGED <<loopAlive, errLog>>
              ELSE /\ loopAlive' = OnSendError
                   /\ errLog' = errLog \cup {r}
                   /\ UNCHANGED oneshot
    /\ clPermits' = clPermits + 1
    /\ dpc' = [dpc EXCEPT ![r] = "finished"]
    /\ UNCHANGED <<cfg, cst, intake, parkedQ, dtx, bufPermits, bufWaiters, readyQ, workerQ,
                   worker, rl, now, starts, got, mgrVars, other, scrVars, pureVars>>

\* the clock advances; once the RateLimit's window has ended, more time changes
\* nothing the client can observe
Tick ==
    /\ now < rl.until
    /\ now' = now + 1
    /\ UNCHANGED <<cfg, cst, intake, parkedQ, dpc, dtx, bufPermits, bufWaiters, readyQ, dtop,
                   workerQ, worker, clPermits, rl, starts, oneshot, sendsTo, got,
                   errLog, loopAlive, mgrVars, other, scrVars, pureVars>>

\* the clock moves on by one tick past the end of the RateLimit's window: the
\* client is idle, or the request that is waiting is taken up late
TickIdle ==
    /\ now = rl.until
    /\ now' = now + 1
    /\ UNCHANGED <<cfg, cst, intake, parkedQ, dpc, dtx, bufPermits, bufWaiters, readyQ, dtop,
                   workerQ, worker, clPermits, rl, starts, oneshot, sendsTo, got,
                   errLog, loopAlive, mgrVars, other, scrVars, pureVars>>

\* the clock advances to the end of the RateLimit's window: the instants in
\* between differ only in the times at which transport calls can start
WindowEnds ==
    /\ now < rl.until
    /\ now' = rl.until
    /\ UNCHANGED <<cfg, cst, intake, parkedQ, dpc, dtx, bufPermits, bufWaiters, readyQ, dtop,
                   workerQ, worker, clPermits, rl, starts, oneshot, sendsTo, got,
                   errLog, loopAlive, mgrVars, other, scrVars, pureVars>>

(***************************************************************************)
(* A second client, built by its own LimitedRequestClient::new with the    *)
(* same arguments: its own channel, dispatch task and service stack. Its   *)
(* transport never returns.                                                *)
(***************************************************************************)
OtherNew(c) ==
    [queue |-> 0, exec |-> 0, rl |-> [limited |-> FALSE, until |-> 0, rem |-> c.rateNum]]

\* LimitedRequestClient::call on the second client: the request is in its
\* channel. Calls beyond those that fill its slots and its channel only
\* lengthen the queue
OtherCall ==
    /\ other.queue + other.exec < cfg.maxConc + cfg.chanBuf
    /\ other' = [other EXCEPT !.queue = @ + 1]
    /\ UNCHANGED <<mgrVars, lrcVars, scrVars, pureVars>>

\* the second client's dispatch loop and service stack take a request through
\* its gates and call its transport
OtherStart ==
    /\ other.queue > 0
    /\ other.exec < cfg.maxConc
    /\ ~other.rl.limited \/ now >= other.rl.until
    /\ LET polled == IF other.rl.limited
                     THEN [limited |-> FALSE, until |-> now + cfg.ratePer, rem |-> cfg.rateNum]
                     ELSE other.rl
       IN  other' = [queue |-> other.queue - 1, exec |-> other.exec + 1,
                     rl |-> RateLimitCalled(polled)]
    /\ UNCHANGED <<mgrVars, lrcVars, scrVars, pureVars>>

\* the second client is saturated: its channel is full, every slot is held by
\* a transport call and its RateLimit has used up its window
OtherSaturated ==
    /\ other.queue >= cfg.chanBuf
    /\ other.exec = cfg.maxConc
    /\ other.rl.limited

(***************************************************************************)
(* Scrapers (src/scraper/{bilibili,netease,spotify,youtube}.rs and the     *)
(* earlier src/scraper/bili.rs): values.                                   *)
(***************************************************************************)
\* enum Zone of the protocol
Zones == {"Unspecified", "Track", "Artist", "Playlist"}

ZoneLists == UNION {[1..n -> Zones] : n \in 0..MaxZones}

\* page is an i32 the Manager forwards as it came in
Pages == {-1, 0, 1, 2}

\* enum ScrapeType of bili.rs
ScrapeTypes == {"All", "Playlist", "Artist", "Song", "Album"}

\* the Scraper of bili.rs, next to the four of the Scraper trait
BiliLegacy == "bili.rs"

\* the variants of search_item::Item; a Zone::Artist query yields Item::User
ItemOfZone(z) == IF z = "Artist" THEN "User" ELSE z

ScrOk(items) == [tag |-> "Ok", items |-> items, err |-> "none"]

ScrErr(kind) == [tag |-> "Err", items |-> <<>>, err |-> kind]

\* the call unwound with a panic
ScrPanic == [tag |-> "Panic", items |-> <<>>, err |-> "none"]

\* the call waits for its upstream requests
ScrPending == [tag |-> "Pending", items |-> <<>>, err |-> "none"]

NoCall == [scraper |-> "none", op |-> "none", page |-> 1, zones |-> <<>>, idOk |-> TRUE]

\* a u32 is kept as its two 16-bit halves
Half == 65536

\* `page as u32` of an i32
AsU32(n) ==
    IF n >= 0 THEN [hi |-> n \div Half, lo |-> n % Half]
    ELSE LET m == -(n + 1)
         IN  [hi |-> (Half - 1) - (m \div Half), lo |-> (Half - 1) - (m % Half)]

\* a - 1 on u32: the wrapped value, and whether the subtraction overflowed
U32SubOne(a) ==
    IF a.lo > 0 THEN [hi |-> a.hi, lo |-> a.lo - 1, overflow |-> FALSE]
    ELSE IF a.hi > 0 THEN [hi |-> a.hi - 1, lo |-> Half - 1, overflow |-> FALSE]
    ELSE [hi |-> Half - 1, lo |-> Half - 1, overflow |-> TRUE]

\* a * k on u32 for a small k: the wrapped value, and whether it overflowed
U32Mul(a, k) ==
    LET lo == a.lo * k
        hi == a.hi * k + (lo \div Half)
    IN  [hi |-> hi % Half, lo |-> lo % Half, overflow |-> hi >= Half]

\* (page as u32 - 1) * 20
SpotifyOffset(page) ==
    LET d == U32SubOne(AsU32(page))
        m == U32Mul(d, 20)
    IN  [hi |-> m.hi, lo |-> m.lo, overflow |-> d.overflow \/ m.overflow]

\* (page - 1) * 30 on i32
NeteaseOffset(page) == (page - 1) * 30

\* the match of SpotifyScraper::search
SpotifySearchType(z) ==
    CASE z = "Artist" -> "Artist"
      [] z = "Playlist" -> "Playlist"
      [] z \in {"Track", "Unspecified"} -> "Track"

\* the match of BiliScraper::search (bilibili.rs)
BiliSearchType(z) ==
    CASE z = "Track" -> "Video"
      [] z = "Artist" -> "User"
      [] z = "Playlist" -> "Video"
      [] z = "Unspecified" -> "none"

\* the match of NeteaseScraper::search
NeteaseSearchType(z) ==
    CASE z = "Track" -> "TRACK"
      [] z = "Artist" -> "ARTIST"
      [] z = "Playlist" -> "PLAYLIST"
      [] z = "Unspecified" -> "none"

\* the match of YouTubeScraper::ysearch
YsearchType(z) ==
    CASE z = "Track" -> "video"
      [] z = "Playlist" -> "playlist"
      [] z = "Artist" -> "channel"
      [] z = "Unspecified" -> "none"

\* the match of BiliScraper::search (bili.rs)
LegacySearchType(t) ==
    CASE t = "All" -> "all"
      [] t = "Playlist" -> "video"
      [] t = "Artist" -> "bili_user"
      [] t \in {"Song", "Album"} -> "none"

\* the variants of search_item::Item an upstream answer to a query is turned
\* into: a Bilibili video is a Track or, with several parts, a Playlist
QueryYields(q) ==
    CASE q \in {"Track", "TRACK", "video"} -> {"Track"}
      [] q \in {"Artist", "ARTIST", "channel", "User", "bili_user"} -> {"User"}
      [] q \in {"Playlist", "PLAYLIST", "playlist"} -> {"Playlist"}
      [] q = "Video" -> {"Track", "Playlist"}
      [] q = "all" -> {"Track", "User", "Playlist"}
      [] q = "playlist_detail" -> {"Track"}

\* ways an upstream request fails: the transport returns an error, the
\* upstream answers with a non-success code, or the body does not parse
UpFailures == {"transport", "status", "body"}

AllItems == {"Track", "User", "Playlist"}

AllUpResponses ==
    {[tag |-> "ok", items |-> its] : its \in UNION {[1..n -> AllItems] : n \in 0..MaxItems}}
        \cup {[tag |-> f, items |-> <<>>] : f \in UpFailures}

\* what the upstream may answer to the query q
UpResponses(q) ==
    {a \in AllUpResponses : \A k \in DOMAIN a.items : a.items[k] \in QueryYields(q)}

\* what the upstream may answer to the requests up, one answer for each
RECURSIVE UpAnswers(_)
UpAnswers(up) ==
    IF up = <<>> THEN {<<>>}
    ELSE {<<a>> \o rest : a \in UpResponses(Head(up).q), rest \in UpAnswers(Tail(up))}

\* one future of a try_join_all: it makes an upstream request, or it ends at
\* its first poll with bail!, or it panics at its first poll
FutCall(q, offset) == [kind |-> "call", q |-> q, offset |-> offset]

FutBail == [kind |-> "bail", q |-> "none", offset |-> 0]

FutPanic == [kind |-> "panic", q |-> "none", offset |-> 0]

\* the first poll of try_join_all(futs): the futures are polled in list
\* order up to the first that ends with an error; those polled before it have
\* made their request
TryJoinAllPoll(futs) ==
    LET ended == {i \in DOMAIN futs : futs[i].kind # "call"}
        first == IF ended = {} THEN Len(futs) + 1
                 ELSE CHOOSE i \in ended : \A j \in ended : i <= j
    IN  [up  |-> SubSeq(futs, 1, first - 1),
         res |-> IF ended = {}
                 THEN (IF futs = <<>> THEN ScrOk(<<>>) ELSE ScrPending)
                 ELSE IF futs[first].kind = "bail" THEN ScrErr("Unsupported")
                 ELSE ScrPanic]

\* BiliScraper::search (bilibili.rs) up to its first await
BiliSearchPlan(page, zones) ==
    IF \E i \in DOMAIN zones : zones[i] = "Unspecified"
    THEN [up |-> <<>>, res |-> ScrErr("Unsupported")]
    ELSE TryJoinAllPoll([i \in DOMAIN zones |-> FutCall(BiliSearchType(zones[i]), page)])

\* NeteaseScraper::search up to its first await
NeteaseSearchPlan(page, zones) ==
    TryJoinAllPoll([i \in DOMAIN zones |->
        IF NeteaseSearchType(zones[i]) = "none" THEN FutBail
        ELSE FutCall(NeteaseSearchType(zones[i]), NeteaseOffset(page))])

\* YouTubeScraper::search up to its first await
YoutubeSearchPlan(page, zones) ==
    TryJoinAllPoll([i \in DOMAIN zones |->
        IF YsearchType(zones[i]) = "none" THEN FutBail
        ELSE FutCall(YsearchType(zones[i]), page)])

\* SpotifyScraper::search up to its first await. With overflow checks (a
\* debug build) an overflow of the offset panics, without them (a release
\* build) the offset wraps
SpotifySearchPlan(page, zones, overflowChecks) ==
    LET off == SpotifyOffset(page)
    IN  TryJoinAllPoll([i \in DOMAIN zones |->
            IF off.overflow /\ overflowChecks THEN FutPanic
            ELSE FutCall(SpotifySearchType(zones[i]), [hi |-> off.hi, lo |-> off.lo])])

SearchPlan(s, page, zones, overflowChecks) ==
    CASE s = "Bilibili" -> BiliSearchPlan(page, zones)
      [] s = "NeteaseMusic" -> NeteaseSearchPlan(page, zones)
      [] s = "Youtube" -> YoutubeSearchPlan(page, zones)
      [] s = "Spotify" -> SpotifySearchPlan(page, zones, overflowChecks)

\* a variant of detail that asks the upstream whatever the zone
DetailPlanAnyZone(s, zone, idOk) ==
    IF s = "Spotify" /\ ~idOk
    THEN [up |-> <<>>, res |-> ScrErr("InvalidInput")]
    ELSE [up |-> <<FutCall("playlist_detail", 0)>>, res |-> ScrPending]

\* detail of the four Scrapers up to its first await: bail! unless the zone
\* is Playlist; Spotify parses the id before it asks the upstream
DetailPlan(s, zone, idOk) ==
    IF zone # "Playlist" THEN [up |-> <<>>, res |-> ScrErr("Unsupported")]
    ELSE IF s = "Spotify" /\ ~idOk
    THEN [up |-> <<>>, res |-> ScrErr("InvalidInput")]
    ELSE [up |-> <<FutCall("playlist_detail", 0)>>, res |-> ScrPending]

\* BiliScraper::search (bili.rs) up to its first await
LegacySearchPlan(t) ==
    IF LegacySearchType(t) = "none" THEN [up |-> <<>>, res |-> ScrOk(<<>>)]
    ELSE [up |-> <<FutCall(LegacySearchType(t), 0)>>, res |-> ScrPending]

\* the filter BiliScraper::search (bilibili.rs) puts on the items of a zone
ZoneFilter(s, z, items) ==
    LET keep(x) == x = ItemOfZone(z)
    IN  IF s = "Bilibili" /\ z \in {"Track", "Playlist"} THEN SelectSeq(items, keep)
        ELSE items

\* a variant that keeps the items of the zones whose query succeeded
SearchJoinPartial(s, zones, outs) ==
    ScrOk(Flatten([i \in DOMAIN outs |-> ZoneFilter(s, zones[i], outs[i].items)]))

\* try_join_all(..).await? followed by flatten: the first failure fails the
\* call, otherwise the items of the zones in list order
SearchJoin(s, zones, outs) ==
    IF \E i \in DOMAIN outs : outs[i].tag # "ok" THEN ScrErr("UpstreamFailure")
    ELSE ScrOk(Flatten([i \in DOMAIN outs |-> ZoneFilter(s, zones[i], outs[i].items)]))

\* the match at the end of BiliScraper::search (bili.rs): Err(e) => vec![]
LegacyJoin(out) ==
    IF out.tag = "ok" THEN ScrOk(out.items) ELSE ScrOk(<<>>)

\* the conversion of the upstream's playlist into a PlaylistDetail: YouTube
\* takes the cover from self.videos[0]
PlaylistInto(s, items) ==
    IF s = "Youtube" /\ items = <<>> THEN ScrPanic ELSE ScrOk(items)

\* playlist_detail(id).await? and the conversion of its answer
DetailJoin(s, out) ==
    IF out.tag # "ok" THEN ScrErr("UpstreamFailure") ELSE PlaylistInto(s, out.items)

\* the Provider values InvidiousSearchVideo::into writes into the item of a
\* video search: that of the Track, and that of the Artist nested in it
YoutubeSearchVideoTags == {"Youtube"} \cup {"Bilibili"}

\* the Provider values a Scraper writes into an entity it builds for an item
\* of a search (the entity's own and those of the artists nested in it)
SearchItemTags(s, item) ==
    CASE s = "Youtube" /\ item = "Track" -> YoutubeSearchVideoTags
      [] s = "Youtube" /\ item # "Track" -> {"Youtube"}
      [] s = "Bilibili" -> {"Bilibili"}
      [] s = "NeteaseMusic" -> {"NeteaseMusic"}
      [] s = "Spotify" -> {"Spotify"}

(***************************************************************************)
(* Scrapers: operations.                                                   *)
(***************************************************************************)
ScraperStart(call, plan) ==
    /\ sPc = "idle"
    /\ sCall' = call
    /\ sUp' = plan.up
    /\ sAns' = <<>>
    /\ sResp' = plan.res
    /\ sPc' = IF plan.res = ScrPending THEN "waiting" ELSE "done"
    /\ UNCHANGED <<mgrVars, lrcVars, other, pureVars>>

\* Scraper::search of one of the four Scrapers
ScraperSearch(s, page, zones) ==
    \E overflowChecks \in BOOLEAN :
        ScraperStart([scraper |-> s, op |-> "search", page |-> page, zones |-> zones,
                      idOk |-> TRUE],
                     SearchPlan(s, page, zones, overflowChecks))

\* Scraper::detail of one of the four Scrapers
ScraperDetail(s, zone, idOk) ==
    ScraperStart([scraper |-> s, op |-> "detail", page |-> 1, zones |-> <<zone>>,
                  idOk |-> idOk],
                 DetailPlan(s, zone, idOk))

\* BiliScraper::search of bili.rs
LegacySearch(t) ==
    ScraperStart([scraper |-> BiliLegacy, op |-> "search", page |-> 1, zones |-> <<t>>,
                  idOk |-> TRUE],
                 LegacySearchPlan(t))

\* the upstream answers the requests of the call, and the call returns
UpstreamReturn(outs) ==
    /\ sPc = "waiting"
    /\ DOMAIN outs = DOMAIN sUp
    /\ \A i \in DOMAIN sUp : outs[i] \in UpResponses(sUp[i].q)
    /\ sAns' = outs
    /\ sResp' = CASE sCall.scraper = BiliLegacy -> LegacyJoin(outs[1])
                  [] sCall.scraper # BiliLegacy /\ sCall.op = "detail" ->
                        DetailJoin(sCall.scraper, outs[1])
                  [] sCall.scraper # BiliLegacy /\ sCall.op = "search" ->
                        SearchJoin(sCall.scraper, sCall.zones, outs)
    /\ sPc' = "done"
    /\ UNCHANGED <<sCall, sUp, mgrVars, lrcVars, other, pureVars>>

\* the caller has the outcome; the Scraper is called again
ScraperNext ==
    /\ sPc = "done"
    /\ sPc' = "idle"
    /\ sCall' = NoCall
    /\ sUp' = <<>>
    /\ sAns' = <<>>
    /\ sResp' = ScrPending
    /\ UNCHANGED <<mgrVars, lrcVars, other, pureVars>>

\* no Scraper call is under way
ScrapersIdle ==
    /\ sPc = "idle"
    /\ sCall = NoCall
    /\ sUp = <<>>
    /\ sAns = <<>>
    /\ sResp = ScrPending

(***************************************************************************)
(* Bilibili track ids (src/scraper/bilibili.rs).                           *)
(***************************************************************************)
\* characters of a bvid or cid: a letter, a digit, and the colon of the separator
Chars == {"B", "1", ":"}

\* strings, as sequences of characters
Strs == UNION {[1..n -> Chars] : n \in 0..MaxLen}

TidOk(pair) == [tag |-> "Ok", bvid |-> pair[1], cid |-> pair[2]]

TidErr == [tag |-> "Err", bvid |-> <<>>, cid |-> <<>>]

TidNone == [tag |-> "None", bvid |-> <<>>, cid |-> <<>>]

\* format!("{}::{}", bvid, cid)
trackid_from(bvid, cid) == bvid \o <<":", ":">> \o cid

\* str::split_once("::"): the parts before and after the first "::", if any
SplitOnce(id) ==
    LET at == {i \in 1..(Len(id) - 1) : id[i] = ":" /\ id[i + 1] = ":"}
        first == CHOOSE i \in at : \A j \in at : i <= j
    IN  IF at = {} THEN <<>>
        ELSE <<SubSeq(id, 1, first - 1), SubSeq(id, first + 2, Len(id))>>

trackid_into(id) ==
    LET parts == SplitOnce(id)
    IN  IF parts # <<>> /\ parts[1] # <<>> /\ parts[2] # <<>> THEN TidOk(parts)
        ELSE TidErr

\* the id of a Track is built: Into<Track> for BiliVideoDetail, into_track_info
TrackidFrom ==
    /\ tPc = "args"
    /\ tId' = trackid_from(tBvid, tCid)
    /\ tPc' = "id"
    /\ UNCHANGED <<tBvid, tCid, tParsed, mgrVars, lrcVars, other, scrVars, rtVars, cfgVars, strVars, wbiVars>>

\* BiliScraper::stream takes the id apart
TrackidInto ==
    /\ tPc = "id"
    /\ tParsed' = trackid_into(tId)
    /\ tPc' = "parsed"
    /\ UNCHANGED <<tBvid, tCid, tId, mgrVars, lrcVars, other, scrVars, rtVars, cfgVars, strVars, wbiVars>>

TrackIdIdle ==
    /\ tPc = "args"
    /\ tBvid = <<>>
    /\ tCid = <<>>
    /\ tId = <<>>
    /\ tParsed = TidNone

(***************************************************************************)
(* A playlist in search and in detail (src/scraper/*.rs).                  *)
(***************************************************************************)
PlaylistIds == {"p", "q"}

PlaylistNames == {"n", "m"}

\* the owner of a playlist or the author of a video; Spotify's display name
\* is optional
Owners == [id : {"u"}, name : {"none", "v"}]

\* the playlist as the upstream holds it: id, name and owner, its tracks,
\* and for a Bilibili video its staff and the number of videos it announces
UpPlaylists ==
    [id : PlaylistIds, name : PlaylistNames, owner : Owners, staff : {<<>>, <<[id |-> "w", name |-> "x"]>>},
     videos : 0..(MaxItems + 1), tracks : 0..(MaxItems + 1)]

NoPlaylist ==
    [id |-> "p", name |-> "n", owner |-> [id |-> "u", name |-> "none"], staff |-> <<>>,
     videos |-> 0, tracks |-> 0]

NoItem == [kind |-> "none", id |-> <<>>, name |-> "n", artists |-> <<>>]

RtOk(id, name, artists, tracks) ==
    [tag |-> "Ok", id |-> id, name |-> name, artists |-> artists, tracks |-> tracks]

RtErr == [tag |-> "Err", id |-> <<>>, name |-> "n", artists |-> <<>>, tracks |-> 0]

RtPanic == [tag |-> "Panic", id |-> <<>>, name |-> "n", artists |-> <<>>, tracks |-> 0]

RtPending == [tag |-> "Pending", id |-> <<>>, name |-> "n", artists |-> <<>>, tracks |-> 0]

\* Into<Artist> of the four Scrapers: id and name; Spotify takes the id for
\* a missing display name
IntoArtist(s, u) ==
    [id |-> u.id, name |-> IF s = "Spotify" /\ u.name = "none" THEN u.id ELSE u.name]

\* Into<ArtistDetail> of the four Scrapers: the Artist inside is built from
\* the same fields
IntoArtistDetail(s, u) ==
    [id |-> u.id, name |-> IF s = "Spotify" /\ u.name = "none" THEN u.id ELSE u.name]

\* the id as a Scraper writes it: PlaylistId::to_string of Spotify gives the
\* URI form, the others give the upstream's id
IdToString(s, id) == IF s = "Spotify" THEN <<"spotify:playlist", id>> ELSE <<id>>

\* the id as detail reads it: PlaylistId::from_id_or_uri takes both forms
IdFromString(s, str) == str[Len(str)]

\* vec![self.author].chain(self.partner) of a Bilibili video; the owner alone
\* for the others
UpArtists(s, p) == IF s = "Bilibili" THEN <<p.owner>> \o p.staff ELSE <<p.owner>>

\* a variant that takes a video that announces no video for a Track as well
BiliClassifyAtMostOne(videos) == IF videos <= 1 THEN "Track" ELSE "Playlist"

\* BiliScraper::bsearch: a video is a Track if its detail announces one video
BiliClassify(videos) == IF videos = 1 THEN "Track" ELSE "Playlist"

\* the item a Scraper's search builds for the playlist
SearchItemOf(s, p) ==
    [kind    |-> IF s = "Bilibili" THEN BiliClassify(p.videos) ELSE "Playlist",
     id      |-> IdToString(s, p.id),
     name    |-> p.name,
     artists |-> [i \in DOMAIN UpArtists(s, p) |-> IntoArtist(s, UpArtists(s, p)[i])]]

\* the PlaylistDetail a Scraper's detail builds for the id, asking the same
\* upstream: YouTube takes the cover from the first video
DetailOf(s, id, p) ==
    IF IdFromString(s, id) # p.id THEN RtErr
    ELSE IF s = "Youtube" /\ p.tracks = 0 THEN RtPanic
    ELSE RtOk(IdToString(s, p.id), p.name,
              [i \in DOMAIN UpArtists(s, p) |-> IntoArtistDetail(s, UpArtists(s, p)[i])],
              p.tracks)

\* search finds the playlist
RtSearch ==
    /\ rPc = "upstream"
    /\ rItem' = SearchItemOf(rScr, rUp)
    /\ rPc' = "searched"
    /\ UNCHANGED <<rScr, rUp, rDet, mgrVars, lrcVars, other, scrVars, tidVars, cfgVars, strVars, wbiVars>>

\* detail is called with the id of the Playlist item
RtDetail ==
    /\ rPc = "searched"
    /\ rItem.kind = "Playlist"
    /\ rDet' = DetailOf(rScr, rItem.id, rUp)
    /\ rPc' = "detailed"
    /\ UNCHANGED <<rScr, rUp, rItem, mgrVars, lrcVars, other, scrVars, tidVars, cfgVars, strVars, wbiVars>>

RoundTripIdle ==
    /\ rPc = "upstream"
    /\ rScr = "none"
    /\ rUp = NoPlaylist
    /\ rItem = NoItem
    /\ rDet = RtPending

(***************************************************************************)
(* Startup (src/settings.rs, src/lib.rs, src/main.rs).                     *)
(***************************************************************************)
\* a provider section of the configuration: Option<..Config> and its
\* enabled flag, which defaults to false
SectionStates == {"absent", "disabled", "enabled"}

Settings == [Providers -> SectionStates]

\* the order in which main goes through the provider sections
MainOrder == <<"Spotify", "Bilibili", "NeteaseMusic", "Youtube">>

\* the Scrapers whose constructor (try_new) can fail
FallibleNew == {"Spotify", "Bilibili", "NeteaseMusic"}

\* Setting::check_validation: fails if all four sections are None
check_validation(setting) ==
    IF \A p \in Providers : setting[p] = "absent" THEN "Err" ELSE "Ok"

\* load_config in main: .expect("load config failed")
LoadConfig ==
    /\ gPc = "start"
    /\ gPc' = IF check_validation(gSetting) = "Ok" THEN "init" ELSE "rejected"
    /\ UNCHANGED <<gSetting, gNext, mgrVars, lrcVars, other, scrVars, tidVars, rtVars, strVars, wbiVars>>

\* main handles the next provider section: a section that is present and
\* enabled gets its Scraper built and added; the constructor may fail
MainSection(built) ==
    /\ gPc = "init"
    /\ gNext <= Len(MainOrder)
    /\ LET p == MainOrder[gNext]
       IN  IF gSetting[p] # "enabled"
           THEN gPc' = gPc /\ gNext' = gNext + 1 /\ UNCHANGED scrapers
           ELSE IF ~built /\ p \in FallibleNew
           THEN gPc' = "failed" /\ UNCHANGED <<gNext, scrapers>>
           ELSE gPc' = gPc /\ gNext' = gNext + 1 /\ scrapers' = scrapers \cup {p}
    /\ UNCHANGED <<gSetting, mPc, mReq, mBranch, mResp, calls, lrcVars, other, scrVars,
                   tidVars, rtVars, strVars, wbiVars>>

\* MyBragiServer::new(manager) and Server::builder()..serve(..)
MainServe ==
    /\ gPc = "init"
    /\ gNext = Len(MainOrder) + 1
    /\ gPc' = "serving"
    /\ UNCHANGED <<gSetting, gNext, mgrVars, lrcVars, other, scrVars, tidVars, rtVars, strVars, wbiVars>>

StartupIdle ==
    /\ gPc = "start"
    /\ gSetting = [p \in Providers |-> "absent"]
    /\ gNext = 1

(***************************************************************************)
(* YoutubeScraper::video_stream: the adaptive formats of the upstream,     *)
(* best audio quality first.                                               *)
(***************************************************************************)
\* the variants of AudioQuality, by the name serde reads them from
AudioQualityNames ==
    {"AUDIO_QUALITY_ULTRALOW", "AUDIO_QUALITY_LOW", "AUDIO_QUALITY_MEDIUM",
     "AUDIO_QUALITY_HIGH"}

\* what the audioQuality field of an adaptive format of the upstream can be;
\* "absent": the format has no such field
UpAudioQualities == AudioQualityNames \cup {"absent"}

\* the derived Deserialize of AudioQuality: the variant of a name
AudioQualityOf(name) ==
    CASE name = "AUDIO_QUALITY_ULTRALOW" -> "ULTRALOW"
      [] name = "AUDIO_QUALITY_LOW" -> "LOW"
      [] name = "AUDIO_QUALITY_MEDIUM" -> "MEDIUM"
      [] name = "AUDIO_QUALITY_HIGH" -> "HIGH"

\* the derived Ord of AudioQuality: the variants in the order of declaration
AudioQualityOrd(q) ==
    CASE q = "ULTRALOW" -> 0
      [] q = "LOW" -> 1
      [] q = "MEDIUM" -> 2
      [] q = "HIGH" -> 3

\* a key that is not reversed
ReversePlain(k) == k

\* cmp::Reverse of a key: the greater key compares as the less
Reverse(k) == 0 - k

\* the responses of the upstream: up to MaxFormats adaptive formats; the url of
\* a format is its position in the response
UpFormats == UNION {[1..n -> UpAudioQualities] : n \in 0..MaxFormats}

\* json::<InvidiousVideoDetail>: every format needs a url and an audioQuality
\* that names a variant
JsonFormats(up) ==
    IF \E i \in DOMAIN up : up[i] \notin AudioQualityNames
    THEN [tag |-> "Err"]
    ELSE [tag |-> "Ok",
          formats |-> [i \in DOMAIN up |->
                         [url |-> i, audio_quality |-> AudioQualityOf(up[i])]]]

\* the key video_stream sorts by
StreamKey(w) == Reverse(AudioQualityOrd(w.audio_quality))

\* sort_by_cached_key: the keys are computed once and paired with the index
\* of their element, the pairs are sorted, and the elements follow their pairs
KeyIndexLess(k1, i1, k2, i2) == k1 < k2 \/ (k1 = k2 /\ i1 < i2)

SortedPosition(s, i) ==
    1 + Cardinality({j \in DOMAIN s :
                       KeyIndexLess(StreamKey(s[j]), j, StreamKey(s[i]), i)})

sort_by_cached_key(s) ==
    [p \in DOMAIN s |-> s[CHOOSE i \in DOMAIN s : SortedPosition(s, i) = p]]

\* Into<Stream> for InvidiousFormatsStream; the quality is the Debug form of
\* the variant
IntoStream(w) == [provider |-> "Youtube", quality |-> w.audio_quality, url |-> w.url]

StreamItemOf(w) == [audio |-> IntoStream(w), video |-> "None"]

video_stream(up) ==
    LET resp == JsonFormats(up)
    IN IF resp.tag = "Err"
       THEN [tag |-> "Err"]
       ELSE LET sorted == sort_by_cached_key(resp.formats)
            IN [tag |-> "Ok",
                items |-> [i \in DOMAIN sorted |-> StreamItemOf(sorted[i])]]

StrPending == [tag |-> "Pending"]

VideoStream ==
    /\ fPc = "upstream"
    /\ fPc' = "done"
    /\ fOut' = video_stream(fUp)
    /\ UNCHANGED <<fUp, mgrVars, lrcVars, other, scrVars, tidVars, rtVars, cfgVars,
                   wbiVars>>

StreamIdle ==
    /\ fPc = "upstream"
    /\ fUp = <<>>
    /\ fOut = StrPending

(***************************************************************************)
(* BiliScraper::get_wbi_keys (bili.rs): the WBI keys and their cache.      *)
(***************************************************************************)
HoursPerDay == 24

SlotsPerDay == HoursPerDay * SlotsPerHour

\* FixedOffset::east_opt(8 * 3600)
ChinaOffsetHours == 8

\* the instants of the clock, counted in slots from the start of a UTC day
Instants == 0..(MaxDays * SlotsPerDay - 1)

\* with_timezone(&china_tz): the local time of an instant, in slots
ChinaLocal(t) == t + ChinaOffsetHours * SlotsPerHour

\* Timelike::hour of the local time
ChinaHour(t) == (ChinaLocal(t) % SlotsPerDay) \div SlotsPerHour

\* the calendar day of the local time
ChinaDay(t) == ChinaLocal(t) \div SlotsPerDay

\* Duration::num_days of the difference a - b: whole days, towards zero
NumDays(a, b) ==
    IF a >= b THEN (a - b) \div SlotsPerDay ELSE 0 - ((b - a) \div SlotsPerDay)

NoWbiCache == [some |-> FALSE]

\* keys are named by the instant they were requested at
WbiCacheOf(keys, time) == [some |-> TRUE, wbi |-> keys, time |-> time]

\* what the cache file can hold at construction
WbiCaches == {NoWbiCache} \cup {WbiCacheOf(t, t) : t \in Instants}

\* the test of get_wbi_keys on a cache that is Some
WbiCacheAvailable(china_time, time) ==
    NumDays(china_time, time) < 1 /\ ChinaHour(china_time) >= ChinaHour(time)

WbiPending == [tag |-> "Pending"]

\* get_wbi_keys; fetched: req_wbi_keys and the write of the cache file succeed
GetWbiKeys(fetched) ==
    /\ wPc = "idle"
    /\ wPc' = "done"
    /\ IF wCache.some /\ WbiCacheAvailable(wNow, wCache.time)
       THEN /\ wRes' = [tag |-> "Ok", wbi |-> wCache.wbi]
            /\ wCache' = wCache
       ELSE IF fetched
            THEN /\ wRes' = [tag |-> "Ok", wbi |-> wNow]
                 /\ wCache' = WbiCacheOf(wNow, wNow)
            ELSE /\ wRes' = [tag |-> "Err"]
                 /\ wCache' = wCache
    /\ UNCHANGED <<wNow, mgrVars, lrcVars, other, scrVars, tidVars, rtVars, cfgVars,
                   strVars>>

WbiIdle ==
    /\ wPc = "idle"
    /\ wNow = 0
    /\ wCache = NoWbiCache
    /\ wRes = WbiPending

\* none of the functions below is being applied
PureIdle ==
    /\ TrackIdIdle
    /\ RoundTripIdle
    /\ StartupIdle
    /\ StreamIdle
    /\ WbiIdle

(***************************************************************************)
(* Specifications.                                                         *)
(***************************************************************************)
\* LimitedRequestClient::new with the arguments c
LrcNew(c) ==
    /\ cfg = c
    /\ cst = [r \in CallIds |-> "none"]
    /\ intake = <<>>
    /\ parkedQ = <<>>
    /\ dpc = [r \in CallIds |-> "none"]
    /\ dtx = [r \in CallIds |-> 0]
    /\ bufPermits = c.reqBuf
    /\ bufWaiters = <<>>
    /\ readyQ = <<>>
    /\ dtop = TRUE
    /\ workerQ = <<>>
    /\ worker = [cur |-> 0, permit |-> FALSE, drop |-> 0]
    /\ clPermits = MaxConcurrencyNumber
    /\ rl = [limited |-> FALSE, until |-> 0, rem |-> c.rateNum]
    /\ now = 0
    /\ starts = <<>>
    /\ oneshot = [r \in CallIds |-> Empty]
    /\ sendsTo = [r \in CallIds |-> 0]
    /\ got = [r \in CallIds |-> Empty]
    /\ errLog = {}
    /\ loopAlive = TRUE

InitMgr ==
    /\ scrapers \in SUBSET Providers
    /\ mPc = "idle"
    /\ mReq = NoRequest
    /\ mBranch = <<>>
    /\ mResp = Pending
    /\ calls = EmptyBag
    /\ \E c \in {CHOOSE c \in Configs : c.reqBuf = 1 /\ c.maxConc = 1 /\ c.rateNum = 1} :
          other = OtherNew(c) /\ LrcNew(c)
    /\ ScrapersIdle
    /\ PureIdle

NextMgr ==
    \/ \E provs \in ProviderLists, kw \in Args : MgrSuggest(provs, kw)
    \/ \E provs \in ProviderLists, kw \in Args : MgrSearch(provs, kw)
    \/ \E i \in DOMAIN mBranch :
            \E outcome \in ScraperOutcomes(mReq.providers[i]) : ScraperReturn(i, outcome)
    \/ \E p \in Providers, id \in Args : MgrDetail(p, id)
    \/ \E p \in Providers, id \in Args : MgrStream(p, id)
    \/ \E p \in {mReq.providers[i] : i \in DOMAIN mReq.providers} :
            \E outcome \in ScraperOutcomes(p) : ScraperReturnSingle(outcome)
    \/ MgrNext

SpecMgr == InitMgr /\ [][NextMgr]_vars


InitLrc ==
    /\ scrapers = {}
    /\ mPc = "idle"
    /\ mReq = NoRequest
    /\ mBranch = <<>>
    /\ mResp = Pending
    /\ calls = EmptyBag
    /\ \E c \in Configs : other = OtherNew(c) /\ LrcNew(c)
    /\ ScrapersIdle
    /\ PureIdle

NextLrc ==
    \/ \E r \in 1..MaxCalls : Call(r)
    \/ \E r \in CallIds : CallerReturn(r)
    \/ \E r \in CallIds : Abandon(r)
    \/ DispatchTake
    \/ DispatchPoll
    \/ WorkerWait
    \/ WorkerCall
    \/ WorkerDrop
    \/ \E r \in CallIds : TransportDone(r)
    \/ WindowEnds

SpecLrc == InitLrc /\ [][NextLrc]_vars

\* The same client with one call more, callers that all keep waiting for their
\* result, and a clock that moves in single ticks. The pipeline reads a
\* caller's state only in the final resp_tx.send, so the transport calls that
\* can be made are those of SpecLrc; here they can start at any instant.
NextRate ==
    \/ \E r \in CallIds : Call(r)
    \/ DispatchTake
    \/ DispatchPoll
    \/ WorkerWait
    \/ WorkerCall
    \/ WorkerDrop
    \/ \E r \in CallIds : TransportDone(r)
    \/ Tick

SpecRate == InitLrc /\ [][NextRate]_vars

\* A client with rate_limit_number 1, callers that keep waiting, and a clock
\* that moves tick by tick and on past the end of a window, so that calls are
\* made back to back and after idle time.
InitOne ==
    /\ scrapers = {}
    /\ mPc = "idle"
    /\ mReq = NoRequest
    /\ mBranch = <<>>
    /\ mResp = Pending
    /\ calls = EmptyBag
    /\ \E c \in {c \in Configs : c.rateNum = 1} : other = OtherNew(c) /\ LrcNew(c)
    /\ ScrapersIdle
    /\ PureIdle

NextOne ==
    \/ \E r \in 1..MaxCalls : Call(r)
    \/ DispatchTake
    \/ DispatchPoll
    \/ WorkerWait
    \/ WorkerCall
    \/ WorkerDrop
    \/ \E r \in CallIds : TransportDone(r)
    \/ Tick
    \/ TickIdle

SpecOne == InitOne /\ [][NextOne]_vars

\* a step of the dispatch task, of the worker or of the clock, as SpecLrc takes them
PipelineStep ==
    \/ DispatchTake
    \/ DispatchPoll
    \/ WorkerWait
    \/ WorkerCall
    \/ WorkerDrop
    \/ \E r \in CallIds : TransportDone(r)
    \/ WindowEnds

\* Two clients side by side: the second, with a transport that never returns,
\* is driven into saturation, and then calls are made on the first, whose
\* callers wait for their result. A task that can run is run, a transport call
\* of the first client returns, and time passes.
NextTwo ==
    \/ OtherSaturated /\ \E r \in 1..MaxCalls : Call(r)
    \/ DispatchTake
    \/ DispatchPoll
    \/ WorkerWait
    \/ WorkerCall
    \/ WorkerDrop
    \/ \E r \in CallIds : TransportDone(r)
    \/ WindowEnds
    \/ OtherCall
    \/ OtherStart

SpecTwo ==
    /\ InitLrc
    /\ [][NextTwo]_vars
    /\ WF_vars(PipelineStep)

\* One client whose callers all wait for their result, with a transport
\* whose calls all return: a task that can run is run, and time passes.
NextLive ==
    \/ \E r \in 1..MaxCalls : Call(r)
    \/ DispatchTake
    \/ DispatchPoll
    \/ WorkerWait
    \/ WorkerCall
    \/ WorkerDrop
    \/ \E r \in CallIds : TransportDone(r)
    \/ WindowEnds

SpecLive ==
    /\ InitLrc
    /\ [][NextLive]_vars
    /\ WF_vars(PipelineStep)

\* The Scrapers, called one call at a time with any arguments, against an
\* upstream that answers or fails.
InitScr ==
    /\ scrapers = {}
    /\ mPc = "idle"
    /\ mReq = NoRequest
    /\ mBranch = <<>>
    /\ mResp = Pending
    /\ calls = EmptyBag
    /\ \E c \in {CHOOSE c \in Configs : c.reqBuf = 1 /\ c.maxConc = 1 /\ c.rateNum = 1} :
          other = OtherNew(c) /\ LrcNew(c)
    /\ ScrapersIdle
    /\ PureIdle

NextScr ==
    \/ sPc = "idle" /\ \E s \in Providers, page \in Pages, zones \in ZoneLists :
                            ScraperSearch(s, page, zones)
    \/ \E s \in Providers, zone \in Zones, idOk \in BOOLEAN : ScraperDetail(s, zone, idOk)
    \/ \E t \in ScrapeTypes : LegacySearch(t)
    \/ sPc = "waiting" /\ \E outs \in UpAnswers(sUp) : UpstreamReturn(outs)
    \/ ScraperNext

SpecScr == InitScr /\ [][NextScr]_vars

\* everything but the function under study is at rest
RestIdle ==
    /\ scrapers = {}
    /\ mPc = "idle"
    /\ mReq = NoRequest
    /\ mBranch = <<>>
    /\ mResp = Pending
    /\ calls = EmptyBag
    /\ \E c \in {CHOOSE c \in Configs : c.reqBuf = 1 /\ c.maxConc = 1 /\ c.rateNum = 1} :
          other = OtherNew(c) /\ LrcNew(c)
    /\ ScrapersIdle

\* A Bilibili track id is built from any bvid and cid and taken apart again.
InitTid ==
    /\ RestIdle
    /\ StreamIdle
    /\ WbiIdle
    /\ RoundTripIdle
    /\ StartupIdle
    /\ tPc = "args"
    /\ tBvid \in Strs
    /\ tCid \in Strs
    /\ tId = <<>>
    /\ tParsed = TidNone

NextTid ==
    \/ TrackidFrom
    \/ TrackidInto

SpecTid == InitTid /\ [][NextTid]_vars

\* A playlist of the upstream is found by a Scraper's search and then looked
\* up by the same Scraper's detail.
InitRt ==
    /\ RestIdle
    /\ StreamIdle
    /\ WbiIdle
    /\ TrackIdIdle
    /\ StartupIdle
    /\ rPc = "upstream"
    /\ rScr \in Providers
    /\ rUp \in UpPlaylists
    /\ rItem = NoItem
    /\ rDet = RtPending

NextRt ==
    \/ RtSearch
    \/ RtDetail

SpecRt == InitRt /\ [][NextRt]_vars

\* The server is started with any provider sections in its configuration.
InitCfg ==
    /\ RestIdle
    /\ StreamIdle
    /\ WbiIdle
    /\ TrackIdIdle
    /\ RoundTripIdle
    /\ gPc = "start"
    /\ gSetting \in Settings
    /\ gNext = 1

NextCfg ==
    \/ LoadConfig
    \/ \E built \in BOOLEAN : MainSection(built)
    \/ MainServe

SpecCfg == InitCfg /\ [][NextCfg]_vars

\* The upstream answers a YouTube stream call with any adaptive formats.
InitStr ==
    /\ RestIdle
    /\ TrackIdIdle
    /\ RoundTripIdle
    /\ StartupIdle
    /\ WbiIdle
    /\ fPc = "upstream"
    /\ fUp \in UpFormats
    /\ fOut = StrPending

NextStr == VideoStream

SpecStr == InitStr /\ [][NextStr]_vars

\* get_wbi_keys is called at any instant with any cache written before it.
InitWbi ==
    /\ RestIdle
    /\ TrackIdIdle
    /\ RoundTripIdle
    /\ StartupIdle
    /\ StreamIdle
    /\ wPc = "idle"
    /\ wNow \in Instants
    /\ wCache \in WbiCaches
    /\ wCache.some => wCache.time <= wNow
    /\ wRes = WbiPending

NextWbi == \E fetched \in BOOLEAN : GetWbiKeys(fetched)

SpecWbi == InitWbi /\ [][NextWbi]_vars

(***************************************************************************)
(* Claims about the Manager (SpecMgr).                                     *)
(***************************************************************************)
Count(seq, x) == Cardinality({k \in DOMAIN seq : seq[k] = x})

\* how often item x occurs in what the successful branches returned
CountInOkBranches(x) ==
    Cardinality(UNION {{<<i, k>> : k \in {k \in DOMAIN mBranch[i].items :
                                            mBranch[i].tag = "Ok" /\ mBranch[i].items[k] = x}} :
                       i \in DOMAIN mBranch})

ItemUniverse == {[provider |-> p, val |-> v] : p \in Providers, v \in 1..(MaxItems + 1)}

FanOutDone == mPc = "done" /\ mReq.op \in {"suggest", "search"}

SingleOp == mReq.op \in {"detail", "stream"}

\* C1: suggest and search with a non-empty provider list succeed, and the
\* response holds exactly the items of the branches whose Scraper call
\* succeeded (as many times as those branches returned them), each carrying the
\* provider of a successful branch; unregistered and failing branches add nothing.
C1_FanOutKeepsSuccessfulBranches ==
    (FanOutDone /\ mReq.providers # <<>>) =>
        /\ mResp.tag = "Ok"
        /\ \A x \in ItemUniverse : Count(mResp.items, x) = CountInOkBranches(x)
        /\ \A k \in DOMAIN mResp.items :
              /\ mResp.items[k] \in ItemUniverse
              /\ \E i \in DOMAIN mBranch :
                    /\ mBranch[i].tag = "Ok"
                    /\ mReq.providers[i] = mResp.items[k].provider
                    /\ mReq.providers[i] \in scrapers
        /\ \A i \in DOMAIN mBranch :
              mReq.providers[i] \notin scrapers => mBranch[i] = NotEnabled(mReq.providers[i])

\* C1 witness: a finished fan-out with a successful branch that returned an
\* item, a branch whose Scraper failed, and a non-empty response.
C1_Witness ==
    /\ FanOutDone
    /\ mResp.items # <<>>
    /\ \E i, j \in DOMAIN mBranch :
          /\ mBranch[i].tag = "Ok" /\ mBranch[i].items # <<>>
          /\ mBranch[j].tag = "Err" /\ mReq.providers[j] \in scrapers

\* C2: detail and stream for a provider without a registered Scraper return
\* the 'provider not enabled' error value and invoke no Scraper.
C2_UnregisteredIsAnErrorValue ==
    (mPc = "done" /\ SingleOp /\ mReq.providers[1] \notin scrapers) =>
        /\ mResp = NotEnabled(mReq.providers[1])
        /\ calls = EmptyBag

\* C3: suggest and search with an empty provider list fail with the
\* invalid-input error, never succeed, and invoke no Scraper.
C3_EmptyProvidersFail ==
    (FanOutDone /\ mReq.providers = <<>>) =>
        /\ mResp = ProvidersNil
        /\ mResp.tag # "Ok"
        /\ calls = EmptyBag

\* C3 witness: a fan-out call with an empty provider list has returned, with
\* Scrapers registered that it could have called.
C3_Witness == FanOutDone /\ mReq.providers = <<>> /\ scrapers # {}

\* C4: detail and stream for a registered provider invoke exactly one method,
\* the requested one, on that provider's Scraper with the request's id, and a
\* Scraper error is returned to the caller as it is.
C4_SingleTargetPropagates ==
    (SingleOp /\ mReq.providers[1] \in scrapers /\ mPc \in {"single", "done"}) =>
        /\ calls = SetToBag({Invocation(mReq.providers[1], mReq.op, mReq.arg)})
        /\ BagCardinality(calls) = 1
        /\ (mPc = "done" /\ mBranch[1].tag = "Err") => mResp = mBranch[1]
        /\ (mPc = "done" /\ mBranch[1].tag = "Ok") =>
                mResp.tag = "Ok" /\ mResp.items = mBranch[1].items

\* C4 witness: a detail call on a registered provider whose Scraper failed has returned.
C4_Witness ==
    /\ mPc = "done" /\ mReq.op = "detail"
    /\ mReq.providers[1] \in scrapers
    /\ mBranch[1].tag = "Err"
    /\ Cardinality(scrapers) > 1

\* the items of the successful branches, branch after branch in the order of
\* the request's provider list
RECURSIVE ItemsInListOrder(_)
ItemsInListOrder(branches) ==
    IF branches = <<>> THEN <<>>
    ELSE (IF Head(branches).tag = "Ok" THEN Head(branches).items ELSE <<>>)
            \o ItemsInListOrder(Tail(branches))

\* C14: suggest and search have not returned while a branch is running, and
\* what they return is a function of the branches' outputs alone (the items
\* of the successful branches in the order of the provider list), whatever
\* the order in which the branches finished.
C14_JoinThenMerge ==
    /\ mPc = "fanout" =>
          /\ mResp = Pending
          /\ \E i \in DOMAIN mBranch : mBranch[i] = Pending
    /\ (FanOutDone /\ mReq.providers # <<>>) =>
          /\ \A i \in DOMAIN mBranch : mBranch[i] # Pending
          /\ mResp = Ok(ItemsInListOrder(mBranch))

\* C14 witness: a finished fan-out over two registered providers that both
\* returned items, so that the order of the merge shows in the response.
C14_Witness ==
    /\ FanOutDone
    /\ \E i, j \in DOMAIN mBranch :
          /\ i < j /\ mReq.providers[i] # mReq.providers[j]
          /\ mBranch[i].tag = "Ok" /\ mBranch[i].items # <<>>
          /\ mBranch[j].tag = "Ok" /\ mBranch[j].items # <<>>
    /\ Len(mResp.items) >= 2

\* C15: no suggest, search, detail or stream call, and no Scraper's answer,
\* changes the registry the server was given; the registry is a map keyed by
\* Provider, so it holds one Scraper for each of the providers in it.
C15_RegistryFrozen ==
    [][scrapers' = scrapers /\ scrapers' \subseteq Providers]_vars

\* C15 witness: a detail or stream call for a registered provider has been
\* answered by a Manager with several Scrapers.
C15_Witness ==
    /\ mPc = "done" /\ SingleOp
    /\ mReq.providers[1] \in scrapers
    /\ Cardinality(scrapers) >= 2

(***************************************************************************)
(* Claims about the LimitedRequestClient (SpecLrc, SpecRate).              *)
(***************************************************************************)
\* C5: at most max_concurrency_number transport calls are executing at once.
C5_ConcurrencyBound == Cardinality(Executing) <= cfg.maxConc

\* C5 witness: every slot is taken by an executing transport call while a
\* further request is waiting in the intake queue.
C5_Witness ==
    /\ cfg.maxConc = 2
    /\ Cardinality(Executing) = cfg.maxConc
    /\ intake # <<>>

\* the transport calls made in the interval of one window length that starts at t
StartsWithin(t) ==
    {j \in DOMAIN starts : t <= starts[j].t /\ starts[j].t < t + cfg.ratePer}

\* the transport calls admitted in the RateLimit window that ends at u
StartsOfWindow(u) == {j \in DOMAIN starts : starts[j].win = u}

\* C6 as stated: every interval of length rate_limit_duration, wherever it
\* starts, holds at most rate_limit_number transport calls.
C6_SlidingWindow ==
    \A i \in DOMAIN starts : Cardinality(StartsWithin(starts[i].t)) <= cfg.rateNum

\* C6 as amended: the RateLimit's own windows (each opens at the first call
\* after the one before has ended, and lasts rate_limit_duration) do not
\* overlap and each admits at most rate_limit_number transport calls, so an
\* interval of that length, wherever it starts, holds at most
\* 2 * rate_limit_number - 1 of them.
C6_FixedWindow ==
    \A i \in DOMAIN starts :
        /\ starts[i].win - cfg.ratePer <= starts[i].t /\ starts[i].t < starts[i].win
        /\ Cardinality(StartsOfWindow(starts[i].win)) <= cfg.rateNum
        /\ \A j \in DOMAIN starts :
              starts[j].win > starts[i].win => starts[j].win >= starts[i].win + cfg.ratePer
        /\ Cardinality(StartsWithin(starts[i].t)) <= 2 * cfg.rateNum - 1

\* C6 witness: with rate_limit_number 2, three transport calls within one
\* interval of length rate_limit_duration.
C6_Witness ==
    /\ cfg.rateNum = 2
    /\ \E i \in DOMAIN starts : Cardinality(StartsWithin(starts[i].t)) = 3

\* C7: transport calls are made in the order in which the requests entered
\* the intake queue (requests are numbered in that order), whatever the limits
\* and however the dispatch task and the Buffer's worker are scheduled.
C7_StartOrderIsFifo ==
    \A i, j \in DOMAIN starts : i < j => starts[i].req < starts[j].req

\* C8: the intake queue never holds more than channel_buffer_size requests,
\* and a call suspended in send has not queued its request.
C8_IntakeBounded ==
    /\ Len(intake) <= cfg.chanBuf
    /\ \A r \in CallIds : InSend(r) => ~InSeq(intake, Message(r))

\* C9: a completion handle is sent to at most once, and what it holds, and
\* what call returns, is the outcome of the transport call made for that
\* call's own request.
C9_OwnResultAtMostOnce ==
    \A c \in CallIds :
        /\ sendsTo[c] <= 1
        /\ oneshot[c] # Empty => (oneshot[c] = Outcome(c) /\ dpc[c] = "finished")
        /\ cst[c] = "returned" => (got[c] = Outcome(c) /\ dpc[c] = "finished")
        /\ cst[c] # "returned" => got[c] = Empty

\* C9 witness: two calls have returned, one with a response and one with a
\* transport error, while a third request was in the pipeline.
C9_Witness ==
    /\ \E c, d \in CallIds :
          /\ cst[c] = "returned" /\ got[c].ok
          /\ cst[d] = "returned" /\ ~got[d].ok
    /\ \E e \in CallIds : dpc[e] \in {"buffered", "worker", "executing"}

\* C10: after a caller abandons its call, the request's transport call is
\* still made and runs to its end, the result is dropped (logged, delivered to
\* nobody), the dispatch task lives on, the pipeline can always take a further
\* step while a request is in it, and every finished request whose caller
\* still waits has its own result in its handle.
C10_AbandonIsHarmless ==
    /\ loopAlive
    /\ \A r \in CallIds :
          /\ r \in errLog =>
                /\ cst[r] = "abandoned" /\ dpc[r] = "finished"
                /\ Cardinality({i \in DOMAIN starts : starts[i].req = r}) = 1
          /\ (cst[r] = "abandoned" /\ dpc[r] = "finished") =>
                /\ Cardinality({i \in DOMAIN starts : starts[i].req = r}) = 1
                /\ oneshot[r] = Empty /\ got[r] = Empty
          /\ (cst[r] = "calling" /\ dpc[r] = "finished") => oneshot[r] = Outcome(r)
    /\ (\E r \in CallIds : dpc[r] \notin {"none", "finished"}) => ENABLED PipelineStep

\* C10 witness: a request abandoned before its transport call returned has
\* finished, and a later call has returned its own result.
C10_Witness ==
    \E r, q \in CallIds :
        /\ r \in errLog
        /\ r < q
        /\ cst[q] = "returned" /\ got[q] = Outcome(q)

\* the state of request r in the terms of the specification: 1 Queued,
\* 2 Admitted and waiting for its concurrency slot, 3 Admitted, holding the
\* slot and waiting for the rate window, 4 Executing, 5 Completed or Failed
RequestState(r) ==
    CASE dpc[r] = "none" -> 0
      [] dpc[r] = "queued" -> 1
      [] dpc[r] \in {"taken", "bufwait", "granted", "buffered"} -> 2
      [] dpc[r] = "worker" -> IF worker.permit THEN 3 ELSE 2
      [] dpc[r] = "executing" -> 4
      [] dpc[r] = "finished" -> 5

\* C11: every request moves through Queued, Admitted(waiting for the
\* concurrency slot), Admitted(waiting for the rate window), Executing and
\* Completed/Failed in this order, one state at a time and never back; it
\* holds the ConcurrencyLimit permit while it waits for the rate window.
C11_StateOrder ==
    [][\A r \in CallIds : RequestState(r)' \in {RequestState(r), RequestState(r) + 1}]_vars

\* C11 witness: one request has completed, one has failed, and a third holds
\* the concurrency permit and waits for the rate window to end.
C11_Witness ==
    /\ \E c, d \in CallIds :
          /\ RequestState(c) = 5 /\ TransportOk(c)
          /\ RequestState(d) = 5 /\ ~TransportOk(d)
    /\ \E e \in CallIds : RequestState(e) = 3 /\ rl.limited /\ now < rl.until

\* the transport calls made for request r
CallsMadeFor(r) == {i \in DOMAIN starts : starts[i].req = r}

\* C12: the transport is called at most once for a request, exactly once for a
\* request that has finished, and a caller whose transport call failed gets
\* the error of that one call (and a response if it succeeded).
C12_NoRetry ==
    \A r \in CallIds :
        /\ Cardinality(CallsMadeFor(r)) <= 1
        /\ dpc[r] \in {"executing", "finished"} => Cardinality(CallsMadeFor(r)) = 1
        /\ oneshot[r] # Empty => oneshot[r].ok = TransportOk(r)
        /\ cst[r] = "returned" => got[r].ok = TransportOk(r)

\* C12 witness: a call whose transport call failed has returned the error
\* after one transport call, while the client went on to call the transport
\* for a later request.
C12_Witness ==
    \E r, q \in CallIds :
        /\ ~TransportOk(r) /\ cst[r] = "returned" /\ ~got[r].ok
        /\ Cardinality(CallsMadeFor(r)) = 1
        /\ r < q /\ CallsMadeFor(q) # {}

(***************************************************************************)
(* Claims about two clients (SpecTwo).                                     *)
(***************************************************************************)
\* C13: two clients share no state: no step of one changes the other, and
\* with the second client saturated, every call made on the first reaches its
\* transport and gets its result.
C13_Independent ==
    /\ [][(other' # other) => UNCHANGED lrcVars]_vars
    /\ [][(lrcVars' # lrcVars) => other' = other]_vars
    /\ \A r \in 1..MaxCalls :
          (cst[r] = "calling") ~> (oneshot[r] = Outcome(r) /\ CallsMadeFor(r) # {})

\* C13 witness: the second client is saturated, and a call made on the first
\* has its result while another is on its way.
C13_Witness ==
    /\ OtherSaturated
    /\ \E r, q \in CallIds :
          /\ oneshot[r] = Outcome(r)
          /\ cst[q] = "calling" /\ dpc[q] # "finished"


(***************************************************************************)
(* Claims about the Scrapers (SpecScr).                                    *)
(***************************************************************************)
\* a search of one of the four Scrapers has returned
ScrSearchDone == sPc = "done" /\ sCall.op = "search" /\ sCall.scraper \in Providers

\* the zones of the call the Scrapers have a query type of their own for
SupportedZones == {sCall.zones[i] : i \in DOMAIN sCall.zones} \ {"Unspecified"}

\* C16: a search never returns items of a type other than those of the
\* supported zones it was asked for: a zone the Scraper does not support,
\* Zone::Unspecified included, yields nothing or an error, never the items of
\* a query the Scraper ran as another type.
C16_NoCoercion ==
    (ScrSearchDone /\ sResp.tag = "Ok") =>
        \A k \in DOMAIN sResp.items :
            \E z \in SupportedZones : sResp.items[k] = ItemOfZone(z)

\* C17: a search whose zone list holds an unsupported zone next to supported
\* ones does not fail for the unsupported zone: it returns the results of the
\* supported zones.
C17_MixedZonesAnswered ==
    (/\ ScrSearchDone
     /\ \E i \in DOMAIN sCall.zones : sCall.zones[i] = "Unspecified"
     /\ SupportedZones # {}
     /\ \A i \in DOMAIN sAns : sAns[i].tag = "ok")
        => sResp.tag # "Err"

\* C18: detail with a zone other than Playlist returns the 'not supported'
\* error and has made no upstream request; an upstream request of detail is
\* one of a call with the Playlist zone.
C18_DetailOnlyPlaylist ==
    (sPc # "idle" /\ sCall.op = "detail") =>
        /\ sCall.zones[1] # "Playlist" =>
                (sPc = "done" /\ sResp = ScrErr("Unsupported") /\ sUp = <<>>)
        /\ sUp # <<>> => sCall.zones[1] = "Playlist"

C18_Witness ==
    /\ sPc = "done"
    /\ sCall.op = "detail"
    /\ sCall.zones[1] = "Track"
    /\ sResp = ScrErr("Unsupported")

\* C19: a Scraper operation ends with a success value or an error value,
\* never with a panic, whatever its arguments and whatever well-typed answer
\* the upstream gives.
C19_NoPanic == sPc = "done" => sResp.tag \in {"Ok", "Err"}

\* C20: a search whose upstream request failed returns an error value, never
\* a successful result.
C20_FailureIsError ==
    (sPc = "done" /\ sCall.op = "search" /\ \E i \in DOMAIN sAns : sAns[i].tag \in UpFailures)
        => sResp.tag = "Err"


\* the results of the zones 1..n of the call, one after the other
RECURSIVE ZoneResultsUpTo(_)
ZoneResultsUpTo(n) ==
    IF n = 0 THEN <<>>
    ELSE ZoneResultsUpTo(n - 1) \o ZoneFilter(sCall.scraper, sCall.zones[n], sAns[n].items)

\* C27: the contribution of a provider to a search is all or nothing over
\* the zones asked for: if the query of a zone failed the search returns no
\* item, not even those of the zones whose query succeeded; otherwise it
\* returns the results of the zones, concatenated in the order of the zones.
C27_AllOrNothing ==
    (ScrSearchDone /\ sAns # <<>>) =>
        IF \E i \in DOMAIN sAns : sAns[i].tag # "ok"
        THEN sResp.tag = "Err" /\ sResp.items = <<>>
        ELSE sResp.tag = "Ok" /\ sResp.items = ZoneResultsUpTo(Len(sCall.zones))

\* C27 witness: the query of the first zone returned an item, that of the
\* second failed, and the search returned an error.
C27_Witness ==
    /\ ScrSearchDone
    /\ Len(sAns) = 2
    /\ sAns[1].tag = "ok" /\ sAns[1].items # <<>>
    /\ sAns[2].tag \in UpFailures
    /\ sResp.tag = "Err"

(***************************************************************************)
(* Claims about Bilibili track ids (SpecTid).                              *)
(***************************************************************************)
\* C21: a track id built from a non-empty bvid and a non-empty cid is taken
\* apart into exactly that bvid and cid.
C21_TrackIdRoundTrip ==
    (tPc = "parsed" /\ tBvid # <<>> /\ tCid # <<>>) => tParsed = TidOk(<<tBvid, tCid>>)


\* C22: every entity of a search result, the artists nested in it included,
\* carries the Provider of the Scraper that built it.
C22_OwnProviderTag ==
    (ScrSearchDone /\ sResp.tag = "Ok") =>
        \A k \in DOMAIN sResp.items :
            SearchItemTags(sCall.scraper, sResp.items[k]) = {sCall.scraper}


(***************************************************************************)
(* Claims about a playlist in search and in detail (SpecRt).               *)
(***************************************************************************)
\* id, name and artists (ids and names, in order) of the detail are those of
\* the item of the search
SameIdNameArtists ==
    /\ rDet.tag = "Ok"
    /\ rDet.id = rItem.id
    /\ rDet.name = rItem.name
    /\ rDet.artists = rItem.artists

\* C23: detail on the id of a Playlist item of search returns a
\* playlist with the same id, name and artists and a non-empty tracks list.
C23_RoundTripNonEmpty ==
    rPc = "detailed" => (SameIdNameArtists /\ rDet.tracks > 0)


\* what BiliScraper::search returns for the video in the zone z
BiliZoneResult(z) == ZoneFilter("Bilibili", z, <<rItem.kind>>)

\* C29: Bilibili search returns a video as a Track exactly when its detail
\* announces one video and as a Playlist otherwise; the Track zone returns
\* Tracks only, the Playlist zone Playlists only, and the video is in the
\* result of exactly one of the two zones.
C29_BiliClassification ==
    (rPc # "upstream" /\ rScr = "Bilibili") =>
        /\ rItem.kind = "Track" <=> rUp.videos = 1
        /\ rItem.kind = "Playlist" <=> rUp.videos # 1
        /\ \A k \in DOMAIN BiliZoneResult("Track") : BiliZoneResult("Track")[k] = "Track"
        /\ \A k \in DOMAIN BiliZoneResult("Playlist") : BiliZoneResult("Playlist")[k] = "Playlist"
        /\ Len(BiliZoneResult("Track")) + Len(BiliZoneResult("Playlist")) = 1

C29_Witness ==
    /\ rPc = "searched"
    /\ rScr = "Bilibili"
    /\ rUp.videos = 0
    /\ BiliZoneResult("Playlist") = <<"Playlist">>
    /\ BiliZoneResult("Track") = <<>>


(***************************************************************************)
(* Claims about startup (SpecCfg).                                         *)
(***************************************************************************)
\* C24: a configuration in which every provider section is absent or has
\* enabled = false is rejected by validation, and the server never serves
\* with an empty registry.
C24_NoProviderNoStart ==
    /\ (\A p \in Providers : gSetting[p] # "enabled") => gPc \in {"start", "rejected"}
    /\ gPc = "serving" => scrapers # {}


(***************************************************************************)
(* Further claims about the LimitedRequestClient.                          *)
(***************************************************************************)
\* C25: with rate_limit_number 1, two consecutive transport calls start at
\* least rate_limit_duration apart, whenever the calls are made.
C25_SpacedByWindow ==
    \A i \in DOMAIN starts :
        i > 1 => starts[i].t - starts[i - 1].t >= cfg.ratePer

\* C25 witness: three transport calls with rate_limit_number 1, the second
\* right at the end of the first's window and the third after an idle tick.
C25_Witness ==
    /\ Len(starts) >= 3
    /\ starts[2].t - starts[1].t = cfg.ratePer
    /\ starts[3].t - starts[2].t > cfg.ratePer


\* the caller of r has its result: send has completed and the oneshot holds
\* the outcome of the transport call
Answered(r) == oneshot[r] # Empty /\ ~InSend(r)

\* C26: every call whose caller keeps waiting is answered in the end, with a
\* response or an error, whatever the limits, the queue depth and the number
\* of callers; no request stays in a queue for ever.
C26_EveryCallAnswered ==
    \A r \in 1..MaxCalls :
        (cst[r] = "calling") ~> (Answered(r) /\ dpc[r] = "finished")

\* C26 witness: with every queue in use (a parked caller, a dispatch future
\* waiting for the Buffer), the last call made has been answered.
C26_Witness ==
    /\ cfg.chanBuf = 1 /\ cfg.reqBuf = 1 /\ cfg.maxConc = 1 /\ cfg.rateNum = 1
    /\ \A r \in 1..MaxCalls : cst[r] = "calling" /\ Answered(r)


\* C28: YouTube stream returns one stream for each adaptive format of the
\* upstream response, none added or lost, in the order of non-increasing audio
\* quality, and formats of equal quality keep their upstream order.
C28_StreamOrder ==
    (fPc = "done" /\ fOut.tag = "Ok") =>
        LET items == fOut.items
        IN /\ DOMAIN items = DOMAIN fUp
           /\ \A u \in DOMAIN fUp : \E i \in DOMAIN items : items[i].audio.url = u
           /\ \A i \in DOMAIN items :
                /\ items[i].audio.provider = "Youtube"
                /\ items[i].video = "None"
                /\ items[i].audio.url \in DOMAIN fUp
                /\ items[i].audio.quality = AudioQualityOf(fUp[items[i].audio.url])
           /\ \A i, j \in DOMAIN items :
                i < j =>
                  /\ AudioQualityOrd(items[i].audio.quality)
                        >= AudioQualityOrd(items[j].audio.quality)
                  /\ items[i].audio.quality = items[j].audio.quality
                        => items[i].audio.url < items[j].audio.url

\* a response whose formats were reordered, two of them of equal quality
C28_Witness ==
    /\ fPc = "done"
    /\ fOut.tag = "Ok"
    /\ \E i \in DOMAIN fOut.items : fOut.items[i].audio.url # i
    /\ \E i, j \in DOMAIN fOut.items :
         i < j /\ fOut.items[i].audio.quality = fOut.items[j].audio.quality

\* C30: get_wbi_keys returns the cached keys only when the current time and
\* the time of the cache are on the same calendar day in China; on different
\* days it requests fresh keys and replaces the cache.
C30_CachedOnlySameDay ==
    (wPc = "done" /\ wRes.tag = "Ok" /\ wCache.some) =>
        /\ wRes.wbi = wCache.wbi
        /\ ChinaDay(wCache.time) = ChinaDay(wNow)

=============================================================================
